---- MODULE Spec2Model ----
(***************************************************************************)
(* A model of nozzlewipe.py, a G-code post-processor that replaces every   *)
(* retract / up / move / section / down / extrude window by a block that   *)
(* wipes the nozzle before and after the hop.                              *)
(*                                                                         *)
(* Text is a sequence of one-character strings.  Lengths (X, Y, Z and the  *)
(* configured distances) are fixed-point numbers, in thousandths of a      *)
(* millimetre; the coordinates used lie on a 3-4-5 grid, so that every     *)
(* square root taken is exact.  Stream indices are 0-based as in the       *)
(* source; lines[i + 1] is the source's lines[i].                          *)
(***************************************************************************)
EXTENDS Integers, Sequences, FiniteSets, TLC

VARIABLES
    lines,      \* the input of the current run, one text per line
    emitted,    \* per input line: was it written by a block of the previous run
    cfg,        \* the plugin parameters (module-level globals of the source)
    run,        \* 1: the first run; 2: the run over the first run's output file
    pc,         \* "loop" | "done" | "error"
    i,          \* process: the stream index
    match,      \* process: the MatchResult
    out,        \* the Records process has yielded so far, in order
    blocks,     \* history: the windows make_hop was called on, in order
    scan        \* extract_context: the locals of a call followed line by line

vars == <<lines, emitted, cfg, run, pc, i, match, out, blocks, scan>>

----------------------------------------------------------------------------
(* Strings *)

Whitespace == {" ", "\t", "\n", "\r"}

RECURSIVE LStrip(_)
LStrip(s) ==
    IF s # <<>> /\ Head(s) \in Whitespace THEN LStrip(Tail(s)) ELSE s

RECURSIVE RStrip(_)
RStrip(s) ==
    IF s # <<>> /\ s[Len(s)] \in Whitespace
    THEN RStrip(SubSeq(s, 1, Len(s) - 1))
    ELSE s

Strip(s) == RStrip(LStrip(s))

\* The position of the first c in s, 0 when there is none.
IndexOf(s, c) ==
    IF \E k \in 1..Len(s) : s[k] = c
    THEN CHOOSE k \in 1..Len(s) : s[k] = c /\ \A j \in 1..(k - 1) : s[j] # c
    ELSE 0

\* s.split(c, 1)
SplitAt(s, k) ==
    IF k = 0 THEN <<s>> ELSE <<SubSeq(s, 1, k - 1), SubSeq(s, k + 1, Len(s))>>

SplitOnce(s, c) == SplitAt(s, IndexOf(s, c))

\* s.split(c): two adjacent separators enclose an empty token.
RECURSIVE Split(_, _)
Split(s, c) ==
    IF IndexOf(s, c) = 0 THEN <<s>>
    ELSE <<SplitOnce(s, c)[1]>> \o Split(SplitOnce(s, c)[2], c)

\* sep.join(parts)
RECURSIVE Join(_, _)
Join(parts, sep) ==
    IF parts = <<>> THEN <<>>
    ELSE IF Len(parts) = 1 THEN parts[1]
    ELSE parts[1] \o <<sep>> \o Join(Tail(parts), sep)

\* sub in s
Contains(s, sub) ==
    \E k \in 0..(Len(s) - Len(sub)) : SubSeq(s, k + 1, k + Len(sub)) = sub

Reverse(s) == [k \in 1..Len(s) |-> s[Len(s) + 1 - k]]

----------------------------------------------------------------------------
(* Numbers *)

Digits == <<"0", "1", "2", "3", "4", "5", "6", "7", "8", "9">>

IsDigit(c) == \E k \in 1..10 : Digits[k] = c

DigitVal(c) == (CHOOSE k \in 1..10 : Digits[k] = c) - 1

RECURSIVE ParseNat(_)
ParseNat(s) ==
    IF s = <<>> THEN 0
    ELSE 10 * ParseNat(SubSeq(s, 1, Len(s) - 1)) + DigitVal(s[Len(s)])

RECURSIVE NatToStr(_)
NatToStr(n) ==
    IF n < 10 THEN <<Digits[n + 1]>>
    ELSE NatToStr(n \div 10) \o <<Digits[(n % 10) + 1]>>

Unsigned(v) == IF v # <<>> /\ Head(v) \in {"-", "+"} THEN Tail(v) ELSE v

\* The integer and the fraction digits of an unsigned decimal.
IntPart(parts) == parts[1]
FracPart(parts) == IF Len(parts) = 2 THEN parts[2] ELSE <<>>

IsDecimal(ip, fp) ==
    /\ Len(ip) + Len(fp) > 0
    /\ Len(fp) <= 3
    /\ \A k \in 1..Len(ip) : IsDigit(ip[k])
    /\ \A k \in 1..Len(fp) : IsDigit(fp[k])

IsDecimalParts(parts) == IsDecimal(IntPart(parts), FracPart(parts))

\* Whether float(v) returns: plain decimals only, of at most three decimals.
IsFloat(v) == IsDecimalParts(SplitOnce(Unsigned(v), "."))

Thousandths(ip, fp) ==
    1000 * ParseNat(ip) + ParseNat(fp \o SubSeq(<<"0", "0", "0">>, 1, 3 - Len(fp)))

Magnitude(parts) == Thousandths(IntPart(parts), FracPart(parts))

Signed(v, mag) == IF v # <<>> /\ Head(v) = "-" THEN 0 - mag ELSE mag

\* float(v), in thousandths.
Float(v) == Signed(v, Magnitude(SplitOnce(Unsigned(v), ".")))

RECURSIVE DropZeros(_)
DropZeros(s) ==
    IF Len(s) > 1 /\ s[Len(s)] = "0"
    THEN DropZeros(SubSeq(s, 1, Len(s) - 1))
    ELSE s

Pad(s, n) == IF Len(s) >= n THEN s ELSE [k \in 1..(n - Len(s)) |-> "0"] \o s

\* str(x) of a float x given in thousandths: "3.05", "4.0".
Abs(x) == IF x < 0 THEN 0 - x ELSE x

FloatToStr(x) ==
    (IF x < 0 THEN <<"-">> ELSE <<>>)
    \o NatToStr(Abs(x) \div 1000) \o <<".">>
    \o DropZeros(Pad(NatToStr(Abs(x) % 1000), 3))

\* "%.2f" % x, for x >= 0 in thousandths.
Hundredths(h) == NatToStr(h \div 100) \o <<".">> \o Pad(NatToStr(h % 100), 2)

Fmt2(x) == Hundredths((x + 5) \div 10)

RECURSIVE SqrtIter(_, _)
SqrtIter(n, r) ==
    IF (r + (n \div r)) \div 2 >= r THEN r
    ELSE SqrtIter(n, (r + (n \div r)) \div 2)

\* math.sqrt on the perfect squares the model feeds it.
Sqrt(n) == IF n = 0 THEN 0 ELSE SqrtIter(n, n)

Max(a, b) == IF a >= b THEN a ELSE b

----------------------------------------------------------------------------
(* Records and the line codec *)

GCode(cmd, args, comment) == [cmd |-> cmd, args |-> args, comment |-> comment]

\* A Record's args is a dict; it is modelled as a sequence of <<key, value>>
\* pairs with distinct keys, in insertion order.
Keys(args) == {args[k][1] : k \in 1..Len(args)}

Has(args, key) == key \in Keys(args)

Get(args, key) == args[CHOOSE k \in 1..Len(args) : args[k][1] = key][2]

DictSet(args, key, value) ==
    IF Has(args, key)
    THEN [k \in 1..Len(args) |->
            IF args[k][1] = key THEN <<key, value>> ELSE args[k]]
    ELSE Append(args, <<key, value>>)

\* {arg[0]: arg[1:] for arg in args}
RECURSIVE ArgDict(_)
ArgDict(toks) ==
    IF toks = <<>> THEN <<>>
    ELSE DictSet(ArgDict(SubSeq(toks, 1, Len(toks) - 1)),
                 Head(toks[Len(toks)]), Tail(toks[Len(toks)]))

\* lineparts[0].strip().split(" ")
CmdParts(lineparts) == Split(Strip(lineparts[1]), " ")

\* comment = lineparts[1].rstrip() when the line holds a ";"
Comment(lineparts) == IF Len(lineparts) = 2 THEN RStrip(lineparts[2]) ELSE <<>>

HasEmptyArg(cmdparts) == \E k \in 2..Len(cmdparts) : cmdparts[k] = <<>>

\* parse_line raises IndexError at arg[0] when an argument token is empty.
ParseRaises(line) == HasEmptyArg(CmdParts(SplitOnce(line, ";")))

Parsed(cmdparts, comment) == GCode(cmdparts[1], ArgDict(Tail(cmdparts)), comment)

ParseParts(lineparts) == Parsed(CmdParts(lineparts), Comment(lineparts))

parse_line(line) == ParseParts(SplitOnce(line, ";"))

gcode_to_string(gcode) ==
    Join((IF gcode.cmd # <<>> THEN <<gcode.cmd>> ELSE <<>>)
         \o [k \in 1..Len(gcode.args) |->
                <<gcode.args[k][1]>> \o gcode.args[k][2]]
         \o (IF gcode.comment # <<>>
             THEN << <<";">> \o gcode.comment >>
             ELSE <<>>),
         " ")

----------------------------------------------------------------------------
(* Configuration: the module-level globals the source reads *)

\* The values the source sets when run as a script.
MainConfig ==
    [takeoff_dist |-> 5000, landing_dist |-> 5000, z_relief |-> 50,
     z_hop_per_mm |-> 15, same_type |-> FALSE]

\* Values set through the plugin's parameters: no takeoff wipe, the default
\* landing distance, a steeper hop, and no wipe across section boundaries.
PluginConfig ==
    [takeoff_dist |-> 0, landing_dist |-> 10000, z_relief |-> 50,
     z_hop_per_mm |-> 300, same_type |-> TRUE]

Configurations == {MainConfig, PluginConfig}

takeoff_dist == cfg.takeoff_dist
landing_dist == cfg.landing_dist
z_relief == cfg.z_relief
z_hop_per_mm == cfg.z_hop_per_mm
same_type == cfg.same_type

----------------------------------------------------------------------------
(* Geometry and context *)

HasFloatXY(pos) == IsFloat(Get(pos.args, "X")) /\ IsFloat(Get(pos.args, "Y"))

AllFloatXY(moves) == \A k \in 1..Len(moves) : HasFloatXY(moves[k])

Hypot(dx, dy) == Sqrt(dx * dx + dy * dy)

distance(pos1, pos2) ==
    Hypot(Float(Get(pos1.args, "X")) - Float(Get(pos2.args, "X")),
          Float(Get(pos1.args, "Y")) - Float(Get(pos2.args, "Y")))

TypeMarker == <<"T", "Y", "P", "E", ":">>

\* The count make_hop passes to extract_context.
ContextCount == 20

Context(moves, z_pos, err) == [moves |-> moves, z_pos |-> z_pos, err |-> err]

\* One pass of the loop of extract_context, over the Record of its k-th
\* line: the state (moves, z_pos, collect) after it, and whether it breaks.
\* z_pos is <<>> for None.
\* A collect flag that a Z argument does not clear.
StepCollectPastZ(gcode, collect) ==
    /\ collect
    /\ ~(same_type /\ Contains(gcode.comment, TypeMarker))

StepCollect(gcode, collect) ==
    /\ collect
    /\ ~(same_type /\ Contains(gcode.comment, TypeMarker))
    /\ ~Has(gcode.args, "Z")

StepMoves(gcode, moves, collect) ==
    IF StepCollect(gcode, collect) /\ Has(gcode.args, "X") /\ Has(gcode.args, "Y")
    THEN Append(moves, gcode)
    ELSE moves

StepZ(gcode, z_pos) ==
    IF Has(gcode.args, "Z") THEN <<Float(Get(gcode.args, "Z"))>> ELSE z_pos

StepRaises(gcode) == Has(gcode.args, "Z") /\ ~IsFloat(Get(gcode.args, "Z"))

RECURSIVE ExtractFrom(_, _, _, _, _, _)

ExtractNext(ls, k, count, moves2, z2, c3) ==
    IF ~c3 /\ z2 # <<>>
    THEN Context(moves2, z2, FALSE)
    ELSE ExtractFrom(ls, k + 1, count, moves2, z2, c3)

ExtractStep(ls, k, count, moves, z_pos, collect, gcode) ==
    IF StepRaises(gcode) THEN Context(moves, z_pos, TRUE)
    ELSE ExtractNext(ls, k, count, StepMoves(gcode, moves, collect),
                     StepZ(gcode, z_pos),
                     StepCollect(gcode, collect)
                        /\ Len(StepMoves(gcode, moves, collect)) # count)

ExtractFrom(ls, k, count, moves, z_pos, collect) ==
    IF k > Len(ls) THEN Context(moves, z_pos, FALSE)
    ELSE IF ParseRaises(ls[k]) THEN Context(moves, z_pos, TRUE)
    ELSE ExtractStep(ls, k, count, moves, z_pos, collect, parse_line(ls[k]))

extract_context(ls, count) == ExtractFrom(ls, 1, count, <<>>, <<>>, TRUE)

\* track_dist(moves) as the list of its (step, dist) pairs.  last_step is
\* bound once, to the first step, and never rebound: every delta is the
\* distance to the first step.
TrackStep(init, step, last_step) ==
    Append(init, <<step, init[Len(init)][2] + distance(step, last_step)>>)

RECURSIVE track_dist(_)
track_dist(moves) ==
    IF moves = <<>> THEN <<>>
    ELSE IF Len(moves) = 1 THEN << <<moves[1], 0>> >>
    ELSE TrackStep(track_dist(SubSeq(moves, 1, Len(moves) - 1)),
                   moves[Len(moves)], moves[1])

\* The k-th item, from 0, of back_and_forth(forth): forth, then forth
\* reversed, and again.
Oscillate(forth, r) ==
    IF r < Len(forth) THEN forth[r + 1] ELSE forth[2 * Len(forth) - r]

\* The first n items of back_and_forth(seq).
back_and_forth(seq, n) ==
    [k \in 1..n |-> Oscillate(seq, (k - 1) % (2 * Len(seq)))]

\* A wipe loop that breaks only once the whole wipe distance is covered.
WipeStopAtFull(dist, wipe_dist) == dist >= wipe_dist

\* dist >= takeoff_dist/2.0, dist >= landing_dist/2.0
WipeStop(dist, wipe_dist) == 2 * dist >= wipe_dist

\* The number of steps a wipe loop takes before its break.
RECURSIVE WipeLength(_, _, _)
WipeLength(moves, wipe_dist, n) ==
    IF WipeStop(track_dist(back_and_forth(moves, n))[n][2], wipe_dist)
    THEN n
    ELSE WipeLength(moves, wipe_dist, n + 1)

\* for step, dist in track_dist(moves): pass
TotalDist(moves) ==
    IF moves = <<>> THEN 0 ELSE track_dist(moves)[Len(moves)][2]

\* ls[from::-1] for from >= 0
DownFrom(ls, from) == [k \in 1..(from + 1) |-> ls[from + 2 - k]]

\* lines[start-1::-1]: a start of 0 makes the slice begin at index -1, the
\* last line.
SliceBack(ls, start) ==
    DownFrom(ls, IF start - 1 < 0 THEN Len(ls) + (start - 1) ELSE start - 1)

\* lines[end:]
SliceFrom(ls, end) == SubSeq(ls, end + 1, Len(ls))

----------------------------------------------------------------------------
(* The replacement block *)

WipeTakeoff == <<"w", "i", "p", "e", " ", "t", "a", "k", "e", "o", "f", "f", " ">>
WipeLanding == <<"w", "i", "p", "e", " ", "l", "a", "n", "d", "i", "n", "g", " ">>

\* An emitted Record and, as history, the statement that yielded it.
Entry(gcode, role) == [gcode |-> gcode, role |-> role]

MarkerRecord ==
    GCode(<<>>, <<>>, <<"T", "Y", "P", "E", ":", "Z", "-", "W", "I", "P", "E">>)

\* A raise move written as a G1 move.
RaiseWithG1(last_z) ==
    GCode(<<"G", "1">>, << <<"Z", FloatToStr(last_z + z_relief)>> >>,
          <<"r", "a", "i", "s", "e", " ", "a", " ", "b", "i", "t">>)

RaiseRecord(last_z) ==
    GCode(<<"G", "0">>, << <<"Z", FloatToStr(last_z + z_relief)>> >>,
          <<"r", "a", "i", "s", "e", " ", "a", " ", "b", "i", "t">>)

\* A wipe step that keeps all the arguments of the step it retraces.
WipeKeepingArgs(step, dist, label) ==
    GCode(<<"G", "1">>, DictSet(step.args, "F", <<"3", "0", "0", "0">>),
          label \o Fmt2(dist))

WipeRecord(step, dist, label) ==
    GCode(<<"G", "1">>,
          << <<"X", Get(step.args, "X")>>, <<"Y", Get(step.args, "Y")>>,
             <<"F", <<"3", "0", "0", "0">>>> >>,
          label \o Fmt2(dist))

HopRecord(move, z_up) ==
    GCode(<<"G", "0">>,
          << <<"X", Get(move.args, "X")>>, <<"Y", Get(move.args, "Y")>>,
             <<"Z", FloatToStr(z_up)>>, <<"F", <<"9", "0", "0", "0">>>> >>,
          <<"h", "o", "p">>)

LowerRecord(down) ==
    GCode(<<"G", "0">>,
          << <<"Z", FloatToStr(Float(Get(down.args, "Z")) + z_relief)>> >>,
          <<"l", "o", "w", "e", "r", " ", "a", " ", "b", "i", "t">>)

WipeSteps(pairs, label, role) ==
    [k \in 1..Len(pairs) |-> Entry(WipeRecord(pairs[k][1], pairs[k][2], label), role)]

\* for step in reversed(retraction_steps): yield step
Retrace(steps) == steps \o Reverse(steps)

\* The wipe loop and the retrace after it.
Wipe(moves, wipe_dist, label, role) ==
    Retrace(WipeSteps(track_dist(back_and_forth(moves, WipeLength(moves, wipe_dist, 1))),
                      label, role))

\* A guard that looks at the context only.
GuardOnContext(dist, wipe_dist) == dist > 0

\* dist_before > 0.0 and takeoff_dist > 0.0, dist_after > 0.0 and
\* landing_dist > 0.0
WipeGuard(dist, wipe_dist) == dist > 0 /\ wipe_dist > 0

\* match.fields[name]: <<>> for None, <<gcode>> otherwise.
Field(fields, name) == Get(fields, name)

Raised(recs) == [recs |-> recs, err |-> TRUE]
Returned(recs) == [recs |-> recs, err |-> FALSE]

TakeoffWith(ctx, retract) ==
    IF ctx.err \/ ~AllFloatXY(ctx.moves)
    THEN Raised(<<Entry(MarkerRecord, "marker")>>)
    ELSE Returned(
            <<Entry(MarkerRecord, "marker")>>
            \o (IF ctx.z_pos # <<>>
                THEN <<Entry(RaiseRecord(ctx.z_pos[1]), "raise")>>
                ELSE <<>>)
            \o <<Entry(retract, "retract")>>
            \o (IF WipeGuard(TotalDist(ctx.moves), takeoff_dist)
                THEN Wipe(ctx.moves, takeoff_dist, WipeTakeoff, "takeoff")
                ELSE <<>>))

\* Lines 87-114: marker, raise, retract and the takeoff wipe.
Takeoff(ls, start, retract) ==
    TakeoffWith(extract_context(SliceBack(ls, start), ContextCount), retract)

HopDist(moves_before, move) ==
    IF moves_before # <<>> THEN distance(moves_before[1], move) ELSE 0

HopZ(z_next, hop_dist, up) ==
    Max(z_next + (z_hop_per_mm * hop_dist) \div 1000, Float(Get(up.args, "Z")))

HopWith(moves_before, up, move, down) ==
    IF \/ moves_before # <<>> /\ ~HasFloatXY(move)
       \/ ~IsFloat(Get(down.args, "Z"))
       \/ ~IsFloat(Get(up.args, "Z"))
    THEN Raised(<<>>)
    ELSE Returned(
            <<Entry(HopRecord(move, HopZ(Float(Get(down.args, "Z")),
                                         HopDist(moves_before, move), up)),
                    "hop"),
              Entry(LowerRecord(down), "lower")>>)

\* Lines 116-129: the hop and the lowering.
Hop(ls, start, up, move, down) ==
    HopWith(extract_context(SliceBack(ls, start), ContextCount).moves, up, move, down)

\* A landing that resumes extrusion before it wipes.
ExtrudeBeforeLanding(ctx, section, down, extrude) ==
    IF ctx.err \/ ~AllFloatXY(ctx.moves)
    THEN Raised(<<>>)
    ELSE Returned(
            <<Entry(extrude, "extrude")>>
            \o (IF WipeGuard(TotalDist(ctx.moves), landing_dist)
                THEN Wipe(ctx.moves, landing_dist, WipeLanding, "landing")
                ELSE <<>>)
            \o (IF section # <<>> THEN <<Entry(section[1], "section")>> ELSE <<>>)
            \o <<Entry(down, "down")>>)

LandingWith(ctx, section, down, extrude) ==
    IF ctx.err \/ ~AllFloatXY(ctx.moves)
    THEN Raised(<<>>)
    ELSE Returned(
            (IF WipeGuard(TotalDist(ctx.moves), landing_dist)
             THEN Wipe(ctx.moves, landing_dist, WipeLanding, "landing")
             ELSE <<>>)
            \o <<Entry(extrude, "extrude")>>
            \o (IF section # <<>> THEN <<Entry(section[1], "section")>> ELSE <<>>)
            \o <<Entry(down, "down")>>)

\* Lines 131-153: the landing wipe, then extrude, section and down.
Landing(ls, end, section, down, extrude) ==
    LandingWith(extract_context(SliceFrom(ls, end), ContextCount), section, down, extrude)

Then(a, b) == IF a.err THEN a ELSE [recs |-> a.recs \o b.recs, err |-> b.err]

\* make_hop(lines, start, end, **match.fields): the Records it yields and
\* whether it raised after them.
make_hop(ls, start, end, fields) ==
    Then(Takeoff(ls, start, Field(fields, "retract")[1]),
         Then(Hop(ls, start, Field(fields, "up")[1], Field(fields, "move")[1],
                  Field(fields, "down")[1]),
              Landing(ls, end, Field(fields, "section"), Field(fields, "down")[1],
                      Field(fields, "extrude")[1])))

----------------------------------------------------------------------------
(* The pattern matcher *)

G0 == <<"G", "0">>
G1 == <<"G", "1">>

\* A slot's args are either a string, matched as an exact set of letters, or
\* a callable; the one callable of the pattern is set("FXY").issubset.
Slot(cmd, exact, letters, name, optional) ==
    [cmd |-> cmd, exact |-> exact, letters |-> letters, name |-> name,
     optional |-> optional]

hop_pattern ==
    << Slot(G1, TRUE, {"F", "E"}, "retract", FALSE),
       Slot(G1, TRUE, {"Z"}, "up", FALSE),
       Slot(G0, FALSE, {"F", "X", "Y"}, "move", FALSE),
       Slot(<<>>, TRUE, {}, "section", FALSE),
       Slot(G1, TRUE, {"Z"}, "down", FALSE),
       Slot(G1, TRUE, {"F", "E"}, "extrude", FALSE) >>

MatchResult(pattern) ==
    [fields |-> <<>>, remaining |-> pattern, start |-> -1, end |-> -1]

match_args(slot, p) ==
    IF slot.exact THEN slot.letters = p ELSE slot.letters \subseteq p

\* gcode.cmd == cmd and match_args(set(gcode.args.keys()))
SlotMatches(slot, gcode) ==
    gcode.cmd = slot.cmd /\ match_args(slot, Keys(gcode.args))

\* A matcher that always returns the index of the failing line.
RewindToFailure(m, idx) == idx

\* The value returned when the Record matches no slot and none is optional.
RewindTarget(m, idx) == IF m.start # -1 THEN m.start ELSE idx

\* A fill that leaves start as it was.
FilledWithoutStart(m, name, value, idx, end) ==
    [fields |-> Append(m.fields, <<name, value>>),
     remaining |-> Tail(m.remaining),
     start |-> m.start,
     end |-> end]

\* The MatchResult after its first remaining slot is filled with value at
\* index idx: start is set if it was unset, the slot is popped.
Filled(m, name, value, idx, end) ==
    [fields |-> Append(m.fields, <<name, value>>),
     remaining |-> Tail(m.remaining),
     start |-> IF m.start = -1 THEN idx ELSE m.start,
     end |-> end]

\* match_gcode(gcode, match, i): the MatchResult as it leaves it, and the
\* value it returns.
RECURSIVE match_gcode(_, _, _)
match_gcode(gcode, m, idx) ==
    IF m.remaining = <<>> THEN [match |-> m, rewind |-> idx]
    ELSE IF SlotMatches(Head(m.remaining), gcode)
    THEN [match |-> Filled(m, Head(m.remaining).name, <<gcode>>, idx, idx),
          rewind |-> -1]
    ELSE IF Head(m.remaining).optional
    THEN match_gcode(gcode, Filled(m, Head(m.remaining).name, <<>>, idx, m.end), idx)
    ELSE [match |-> m, rewind |-> RewindTarget(m, idx)]

----------------------------------------------------------------------------
(* process *)

\* A Record passed through from input line idx.
Pass(idx) == [gcode |-> parse_line(lines[idx + 1]), role |-> "pass", idx |-> idx, blk |-> 0]

\* A Record yielded by the b-th call of make_hop.
InBlock(e, b) == [gcode |-> e.gcode, role |-> e.role, idx |-> -1, blk |-> b]

\* A check for the absolute-mode selector instead.
IsAbsolute(gcode) == gcode.cmd = <<"G", "9", "0">>

\* gcode.cmd == "G91"
IsRelative(gcode) == gcode.cmd = <<"G", "9", "1">>

\* A loop that stays at the rewind index.
StayAtRewind(rewind) == rewind

\* The index the loop continues at after passing line `rewind` through.
AfterRewind(rewind) == rewind + 1

Looping == pc = "loop" /\ i < Len(lines)

\* parse_line(lines[i]) raises.
ParseError ==
    /\ Looping
    /\ ParseRaises(lines[i + 1])
    /\ pc' = "error"
    /\ UNCHANGED <<lines, emitted, cfg, run, scan, i, match, out, blocks>>

\* raise Exception("Relative mode is not supported")
RelativeMode(gcode) ==
    /\ IsRelative(gcode)
    /\ pc' = "error"
    /\ UNCHANGED <<lines, emitted, cfg, run, scan, i, match, out, blocks>>

\* The Record filled a slot and slots remain.
Advance(r) ==
    /\ r.match.remaining # <<>>
    /\ r.rewind = -1
    /\ match' = r.match
    /\ i' = i + 1
    /\ UNCHANGED <<lines, emitted, cfg, run, scan, pc, out, blocks>>

CompleteWith(m, rewind, hop) ==
    /\ out' = out \o [k \in 1..Len(hop.recs) |->
                        InBlock(hop.recs[k], Len(blocks) + 1)]
    /\ blocks' = Append(blocks,
          [start |-> m.start, end |-> m.end, first |-> Len(out) + 1,
           last |-> Len(out) + Len(hop.recs), raised |-> hop.err])
    /\ IF hop.err
       THEN /\ pc' = "error"
            /\ UNCHANGED <<i, match>>
       ELSE /\ match' = MatchResult(hop_pattern)
            /\ i' = IF rewind # -1 THEN AfterRewind(rewind) ELSE i + 1
            /\ pc' = pc
    /\ UNCHANGED <<lines, emitted, cfg, run, scan>>

\* The Record filled the last slot: make_hop's Records replace the window.
\* When make_hop raises, the Records it had yielded are out and the run ends.
Complete(r) ==
    /\ r.match.remaining = <<>>
    /\ CompleteWith(r.match, r.rewind,
                    make_hop(lines, r.match.start, r.match.end, r.match.fields))

\* The Record matched no slot: the line at the rewind index is passed
\* through, and a match that had started is dropped.
Rewind(r) ==
    /\ r.match.remaining # <<>>
    /\ r.rewind # -1
    /\ out' = Append(out, Pass(r.rewind))
    /\ match' = IF r.match.start # -1 THEN MatchResult(hop_pattern) ELSE r.match
    /\ i' = AfterRewind(r.rewind)
    /\ UNCHANGED <<lines, emitted, cfg, run, scan, pc, blocks>>

\* The body of the loop after gcode = parse_line(lines[i]).
Body(gcode, r) ==
    \/ RelativeMode(gcode)
    \/ ~IsRelative(gcode) /\ Advance(r)
    \/ ~IsRelative(gcode) /\ Complete(r)
    \/ ~IsRelative(gcode) /\ Rewind(r)

BodyOn(gcode) == Body(gcode, match_gcode(gcode, match, i))

\* One iteration of the loop over a line that parses.
Iterate ==
    /\ Looping
    /\ ~ParseRaises(lines[i + 1])
    /\ BodyOn(parse_line(lines[i + 1]))

\* The loop ends: the lines of an unfinished match are passed through.
Finish ==
    /\ pc = "loop"
    /\ i >= Len(lines)
    /\ out' = IF match.remaining # <<>> /\ match.start # -1
              THEN out \o [k \in 1..(Len(lines) - match.start) |->
                              Pass(match.start + k - 1)]
              ELSE out
    /\ pc' = "done"
    /\ UNCHANGED <<lines, emitted, cfg, run, scan, i, match, blocks>>

\* The plugin is run again on the file the first run wrote.
Rerun ==
    /\ pc = "done"
    /\ run = 1
    /\ lines' = [k \in 1..Len(out) |-> gcode_to_string(out[k].gcode)]
    /\ emitted' = [k \in 1..Len(out) |-> out[k].role # "pass"]
    /\ run' = 2
    /\ pc' = "loop"
    /\ i' = 0
    /\ match' = MatchResult(hop_pattern)
    /\ out' = <<>>
    /\ blocks' = <<>>
    /\ UNCHANGED <<cfg, scan>>

----------------------------------------------------------------------------
(* Inputs *)

\* No call of extract_context is followed line by line.
Idle == [k |-> 0, moves |-> <<>>, z_pos |-> <<>>, collect |-> FALSE, taken |-> <<>>]

LRetract == <<"G", "1", " ", "F", "3", "0", "0", "0", " ", "E", "5">>
LExtrude == <<"G", "1", " ", "F", "3", "0", "0", "0", " ", "E", "9">>
LUp == <<"G", "1", " ", "Z", "4">>
LDown == <<"G", "1", " ", "Z", "3">>
LMove == <<"G", "0", " ", "F", "9", "0", "0", "0", " ", "X", "3", " ", "Y", "4">>
LSection == <<";", "T", "Y", "P", "E", ":", "W", "A", "L", "L">>
LTravelA == <<"G", "1", " ", "X", "0", " ", "Y", "0", " ", "E", "1">>
LTravelB == <<"G", "1", " ", "X", "3", " ", "Y", "0", " ", "E", "2">>
LRelative == <<"G", "9", "1">>
LTwoSpaces == <<"G", "1", " ", " ", "Z", "3">>

\* The example match of the source, its five-line form without the section
\* comment, two of its proper prefixes, a two-move path, and single lines.
Chunks ==
    { <<LRetract, LUp, LMove, LSection, LDown, LExtrude>>,
      <<LRetract, LUp, LMove, LDown, LExtrude>>,
      <<LRetract, LUp, LMove>>,
      <<LRetract, LUp, LMove, LSection, LDown>>,
      <<LTravelA, LTravelB>>,
      <<LRetract>>, <<LDown>>, <<LMove>>, <<LSection>>,
      <<LRelative>>, <<LTwoSpaces>> }

\* The most chunks an input is made of.
MaxChunks == 3

RECURSIVE Flatten(_)
Flatten(ss) == IF ss = <<>> THEN <<>> ELSE Head(ss) \o Flatten(Tail(ss))

Inputs ==
    {Flatten(ss) : ss \in UNION {[1..n -> Chunks] : n \in 0..MaxChunks}}

\* The chunks the parameters of the plugin bear upon: the example match,
\* moves, a section comment and a line with Z.
PluginChunks ==
    { <<LRetract, LUp, LMove, LSection, LDown, LExtrude>>,
      <<LRetract, LUp, LMove>>,
      <<LTravelA, LTravelB>>,
      <<LMove>>, <<LSection>> }

PluginInputs ==
    {Flatten(ss) : ss \in UNION {[1..n -> PluginChunks] : n \in 0..MaxChunks}}

\* The script's configuration over all inputs, the plugin's over those made
\* of PluginChunks.
Configured ==
    \/ cfg = MainConfig /\ lines \in Inputs
    \/ cfg = PluginConfig /\ lines \in PluginInputs

Init ==
    /\ cfg \in Configurations
    /\ Configured
    /\ emitted = [k \in 1..Len(lines) |-> FALSE]
    /\ run = 1
    /\ pc = "loop"
    /\ i = 0
    /\ match = MatchResult(hop_pattern)
    /\ out = <<>>
    /\ blocks = <<>>
    /\ scan = Idle

Next ==
    \/ ParseError
    \/ Iterate
    \/ Finish
    \/ Rerun

Spec == Init /\ [][Next]_vars

----------------------------------------------------------------------------
(* extract_context, one line of its loop at a time *)

\* The lines a call of extract_context may be given.
ContextLines == {LTravelA, LMove, LDown, LSection, LRetract, LTwoSpaces}

\* The longest run of moves and the longest tail behind it.
MaxRun == 21
MaxTail == 2

Repeat(line, n) == [k \in 1..n |-> line]

\* A run of moves followed by a few lines of any kind.
ContextInputs ==
    {Repeat(LTravelB, n) \o tail :
        n \in 0..MaxRun,
        tail \in UNION {[1..t -> ContextLines] : t \in 0..MaxTail}}

\* moves = [], z_pos = None, collect = True; scan.k is the 1-based index of
\* the line the loop reads next, scan.taken the indices of the lines whose
\* Records were appended to moves.
ScanInit ==
    /\ lines \in ContextInputs
    /\ cfg \in Configurations
    /\ emitted = [k \in 1..Len(lines) |-> FALSE]
    /\ run = 1
    /\ pc = "scan"
    /\ i = 0
    /\ match = MatchResult(hop_pattern)
    /\ out = <<>>
    /\ blocks = <<>>
    /\ scan = [k |-> 1, moves |-> <<>>, z_pos |-> <<>>, collect |-> TRUE,
               taken |-> <<>>]

Scanning == pc = "scan" /\ scan.k <= Len(lines)

ScanRaises ==
    IF ParseRaises(lines[scan.k]) THEN TRUE
    ELSE StepRaises(parse_line(lines[scan.k]))

\* The locals after the body of the loop has run over gcode.
Scanned(gcode, moves2) ==
    [k |-> scan.k + 1,
     moves |-> moves2,
     z_pos |-> StepZ(gcode, scan.z_pos),
     collect |-> StepCollect(gcode, scan.collect) /\ Len(moves2) # ContextCount,
     taken |-> IF moves2 # scan.moves THEN Append(scan.taken, scan.k)
               ELSE scan.taken]

ScanBody(next) ==
    /\ scan' = next
    /\ pc' = IF ~next.collect /\ next.z_pos # <<>> THEN "returned" ELSE "scan"

\* One pass of the loop; it ends the call when it breaks.
ScanLine ==
    /\ Scanning
    /\ ~ScanRaises
    /\ ScanBody(Scanned(parse_line(lines[scan.k]),
                        StepMoves(parse_line(lines[scan.k]), scan.moves,
                                  scan.collect)))
    /\ UNCHANGED <<lines, emitted, cfg, run, i, match, out, blocks>>

\* parse_line or float raises on the line.
ScanError ==
    /\ Scanning
    /\ ScanRaises
    /\ pc' = "error"
    /\ UNCHANGED <<lines, emitted, cfg, run, i, match, out, blocks, scan>>

\* The lines are exhausted: return moves, z_pos.
ScanEnd ==
    /\ pc = "scan"
    /\ scan.k > Len(lines)
    /\ pc' = "returned"
    /\ UNCHANGED <<lines, emitted, cfg, run, i, match, out, blocks, scan>>

ScanNext ==
    \/ ScanLine
    \/ ScanError
    \/ ScanEnd

ContextSpec == ScanInit /\ [][ScanNext]_vars

----------------------------------------------------------------------------
(* Vocabulary of the properties *)

Terminal == pc \in {"done", "error"}

AllParse(ls) == \A k \in 1..Len(ls) : ~ParseRaises(ls[k])

\* Some line of ls has the command G91.
HasRelative(ls) ==
    \E k \in 1..Len(ls) :
        ~ParseRaises(ls[k]) /\ parse_line(ls[k]).cmd = <<"G", "9", "1">>

\* The Record of the input line at 0-based index k.
LineRecord(k) == parse_line(lines[k + 1])

\* Index k lies in a window make_hop was called on.
InWindow(k) ==
    \E b \in 1..Len(blocks) : blocks[b].start <= k /\ k <= blocks[b].end

Passes == SelectSeq(out, LAMBDA e : e.role = "pass")

PassRecords == [j \in 1..Len(Passes) |-> Passes[j].gcode]

\* The Records of the lines from index k on that lie in no window.
RECURSIVE Outside(_)
Outside(k) ==
    IF k >= Len(lines) THEN <<>>
    ELSE (IF InWindow(k) THEN <<>> ELSE <<LineRecord(k)>>) \o Outside(k + 1)

BlockEntries(b) == SubSeq(out, blocks[b].first, blocks[b].last)

WithRole(entries, role) == SelectSeq(entries, LAMBDA e : e.role = role)

Records(entries) == [k \in 1..Len(entries) |-> entries[k].gcode]

PositionOf(entries, role) == CHOOSE k \in 1..Len(entries) : entries[k].role = role

\* The blocks make_hop returned from.
Whole == {b \in 1..Len(blocks) : ~blocks[b].raised}

\* Every line outside the windows is passed through once, in order.
PassedThrough == PassRecords = Outside(0)

\* On every run that returns, the lines outside the windows pass through.
PassThroughOnReturn == pc = "done" => PassedThrough

----------------------------------------------------------------------------
(* C1 *)

\* C1 as stated: for every input without a G91 line, process yields, for
\* every line outside the completed windows, exactly its Record, once and in
\* input order.
C1Claim ==
    (run = 1 /\ Terminal /\ ~HasRelative(lines)) => (pc = "done" /\ PassedThrough)

----------------------------------------------------------------------------
(* C2 *)

\* C2: a run over an input that holds a G91 line never returns normally; it
\* ends in the error outcome, and when every line parses and make_hop has not
\* raised, the run ends at a G91 line.
C2Theorem ==
    /\ pc = "done" => ~HasRelative(lines)
    /\ (pc = "error" /\ AllParse(lines) /\ Whole = 1..Len(blocks)) =>
          LineRecord(i).cmd = <<"G", "9", "1">>

\* The G91 line is met while a match is under way.
C2Witness ==
    /\ pc = "error"
    /\ match.start # -1
    /\ i > match.start
    /\ ~ParseRaises(lines[i + 1])
    /\ IsRelative(LineRecord(i))

----------------------------------------------------------------------------
(* C3 *)

\* The five lines from index k on have the shapes retract, up, move, down,
\* extrude.
FiveWindowAt(k) ==
    /\ k + 5 <= Len(lines)
    /\ \A j \in 1..5 : ~ParseRaises(lines[k + j])
    /\ SlotMatches(hop_pattern[1], LineRecord(k))
    /\ SlotMatches(hop_pattern[2], LineRecord(k + 1))
    /\ SlotMatches(hop_pattern[3], LineRecord(k + 2))
    /\ SlotMatches(hop_pattern[5], LineRecord(k + 3))
    /\ SlotMatches(hop_pattern[6], LineRecord(k + 4))

\* C3 as stated: a five-line window without the section comment, not
\* overlapped by a window rewritten to its left, is replaced by a block.
C3Claim ==
    (run = 1 /\ pc = "done") =>
        \A k \in 0..(Len(lines) - 1) :
            (FiveWindowAt(k)
                /\ ~\E b \in 1..Len(blocks) :
                        blocks[b].start < k /\ k <= blocks[b].end)
            => \E b \in 1..Len(blocks) :
                    blocks[b].start = k /\ blocks[b].end = k + 4

----------------------------------------------------------------------------
(* C4 *)

\* The moves that precede index start, nearest first; none before index 0.
MovesBefore(start) ==
    IF start = 0 THEN <<>>
    ELSE extract_context(DownFrom(lines, start - 1), ContextCount).moves

MovesAfter(end) == extract_context(SliceFrom(lines, end), ContextCount).moves

\* C4 as stated: a block whose backward context is empty (as when the match
\* starts at the first line) has no takeoff wipe and holds the retract
\* Record; one whose forward context is empty (as when the match ends at the
\* last line) has no landing wipe and holds the extrude Record.
C4Claim ==
    \A b \in Whole :
        /\ MovesBefore(blocks[b].start) = <<>> =>
              /\ WithRole(BlockEntries(b), "takeoff") = <<>>
              /\ \E k \in blocks[b].first..blocks[b].last :
                    out[k].gcode = LineRecord(blocks[b].start)
        /\ MovesAfter(blocks[b].end) = <<>> =>
              /\ WithRole(BlockEntries(b), "landing") = <<>>
              /\ \E k \in blocks[b].first..blocks[b].last :
                    out[k].gcode = LineRecord(blocks[b].end)

----------------------------------------------------------------------------
(* C5 *)

\* C5: in the run over the first run's output, no window holds a line a
\* block of the first run wrote, the run returns, and every such line is
\* passed through once, with the same text.
C5Theorem ==
    run = 2 =>
        /\ \A k \in 1..Len(lines) : emitted[k] => ~InWindow(k - 1)
        /\ pc # "error"
        /\ pc = "done" =>
              \A k \in 1..Len(lines) :
                  emitted[k] =>
                      /\ Cardinality({j \in 1..Len(out) : out[j].idx = k - 1}) = 1
                      /\ \E j \in 1..Len(out) :
                            /\ out[j].idx = k - 1
                            /\ out[j].role = "pass"
                            /\ gcode_to_string(out[j].gcode) = lines[k]

\* The second run has returned over an output that holds a block that
\* follows lines shaped retract, up, move.
C5Witness ==
    /\ run = 2
    /\ pc = "done"
    /\ \E k \in 4..Len(lines) :
          /\ emitted[k] /\ ~emitted[k - 1]
          /\ SlotMatches(hop_pattern[1], LineRecord(k - 4))
          /\ SlotMatches(hop_pattern[2], LineRecord(k - 3))
          /\ SlotMatches(hop_pattern[3], LineRecord(k - 2))

----------------------------------------------------------------------------
(* C6 *)

\* The length of the path through the positions of recs.
RECURSIVE PathLength(_)
PathLength(recs) ==
    IF Len(recs) < 2 THEN 0
    ELSE distance(recs[1], recs[2]) + PathLength(Tail(recs))

\* The Records of the takeoff wipe of block b before it reverses.
TakeoffLeg(b) ==
    SubSeq(Records(WithRole(BlockEntries(b), "takeoff")), 1,
           Len(WithRole(BlockEntries(b), "takeoff")) \div 2)

HasTakeoff(b) == WithRole(BlockEntries(b), "takeoff") # <<>>

\* The context make_hop collected before the window of block b.
ContextBefore(b) == extract_context(SliceBack(lines, blocks[b].start), ContextCount).moves

LegDists(leg) == [k \in 1..Len(leg) |-> track_dist(leg)[k][2]]

ReversesAtHalf(dists, wipe_dist) ==
    /\ 2 * dists[Len(dists)] >= wipe_dist
    /\ \A k \in 1..(Len(dists) - 1) : 2 * dists[k] < wipe_dist

----------------------------------------------------------------------------
(* C7 *)

\* The last E value among entries: <<>> when none carries E.
RECURSIVE LastE(_)
LastE(entries) ==
    IF entries = <<>> THEN <<>>
    ELSE IF Has(entries[Len(entries)].gcode.args, "E")
    THEN <<Get(entries[Len(entries)].gcode.args, "E")>>
    ELSE LastE(SubSeq(entries, 1, Len(entries) - 1))

BeforeHop(entries) == SubSeq(entries, 1, PositionOf(entries, "hop") - 1)

AfterLower(entries) ==
    SubSeq(entries, PositionOf(entries, "lower") + 1, Len(entries))

\* C7: in every block, the last E value before the hop is the E of the
\* retract slot, and the last E value after the lower move is the E of the
\* extrude slot.
C7Theorem ==
    Terminal =>
        \A b \in Whole :
            /\ LastE(BeforeHop(BlockEntries(b)))
                  = <<Get(LineRecord(blocks[b].start).args, "E")>>
            /\ LastE(AfterLower(BlockEntries(b)))
                  = <<Get(LineRecord(blocks[b].end).args, "E")>>

\* A block with a takeoff wipe and a landing wipe.
C7Witness ==
    /\ Terminal
    /\ \E b \in Whole :
          /\ HasTakeoff(b)
          /\ WithRole(BlockEntries(b), "landing") # <<>>

----------------------------------------------------------------------------
(* C8 *)

\* C8 as stated: parse_line has returned a Record for every line of a run
\* that ended, and a run fails only on a G91 line.
C8Claim ==
    Terminal =>
        /\ AllParse(lines)
        /\ pc = "error" => HasRelative(lines)

----------------------------------------------------------------------------
(* C9 *)

\* The six lines of ls from index k on match the slots of hop_pattern in
\* order.
WindowAt(ls, k) ==
    /\ k + Len(hop_pattern) <= Len(ls)
    /\ \A j \in 1..Len(hop_pattern) :
          /\ ~ParseRaises(ls[k + j])
          /\ SlotMatches(hop_pattern[j], parse_line(ls[k + j]))

\* The starts of the windows a leftmost, non-overlapping scan of ls finds
\* from index k on.
RECURSIVE Scan(_, _)
Scan(ls, k) ==
    IF k >= Len(ls) THEN <<>>
    ELSE IF WindowAt(ls, k) THEN <<k>> \o Scan(ls, k + Len(hop_pattern))
    ELSE Scan(ls, k + 1)

BlockStarts == [b \in 1..Len(blocks) |-> blocks[b].start]

PassIndices == [j \in 1..Len(Passes) |-> Passes[j].idx]

\* The indices below n that lie in no window, in order.
Gaps(n) == SelectSeq([k \in 1..n |-> k - 1], LAMBDA k : ~InWindow(k))

\* The index up to which the input is settled: the start of the match under
\* way, or the index of the loop when none is.
Base == IF match.start = -1 THEN i ELSE match.start

\* Below Base the windows of the scan are rewritten and every other line is
\* passed through once; the match under way is fresh, or holds exactly the
\* lines from its start up to the index of the loop.
Settled ==
    /\ BlockStarts = Scan(SubSeq(lines, 1, Base), 0)
    /\ PassIndices = Gaps(Base)
    /\ match.start = -1 => match = MatchResult(hop_pattern)
    /\ match.start # -1 =>
          /\ match.start < i
          /\ Len(match.remaining) = Len(hop_pattern) - (i - match.start)
          /\ \A j \in 1..(i - match.start) :
                SlotMatches(hop_pattern[j], LineRecord(match.start + j - 1))

\* C9: while process loops, everything below the start of the match under
\* way is settled as a leftmost, non-overlapping scan settles it, so a failed
\* match passes exactly its first line and matching restarts fresh behind it;
\* when process returns, the windows it rewrote are exactly those of the scan
\* and every other line is passed through once.
C9Theorem ==
    /\ \A b \in 1..Len(blocks) :
          blocks[b].end = blocks[b].start + Len(hop_pattern) - 1
    /\ pc = "loop" => Settled
    /\ pc = "done" =>
          /\ BlockStarts = Scan(lines, 0)
          /\ PassIndices = Gaps(Len(lines))

\* A window was rewritten that begins where a match that had filled at least
\* two slots failed.
C9Witness ==
    /\ pc = "done"
    /\ \E b \in 1..Len(blocks) :
          \E s \in 0..(blocks[b].start - 2) :
              \A j \in 1..(blocks[b].start - s) :
                  SlotMatches(hop_pattern[j], LineRecord(s + j - 1))

----------------------------------------------------------------------------
(* C10 *)

\* Between two states of the loop of one run, the start of the match under
\* way does not decrease; it increases when the match is fresh afterwards,
\* and otherwise the index of the loop increases.
Progress ==
    (pc = "loop" /\ pc' = "loop" /\ run' = run) =>
        /\ Base' >= Base
        /\ match'.start = -1 => Base' > Base
        /\ Base' = Base => i' > i

\* C10: the index at which a fresh match starts strictly increases after
\* each rewind and each completed match, every other iteration moves the
\* index of the loop forward, and both stay within the input: the pair
\* (Base, i) is a variant of the loop bounded by the length of the input, so
\* the loop ends after finitely many iterations.
C10Theorem ==
    /\ [][Progress]_vars
    /\ [](pc = "loop" => (0 <= Base /\ Base <= i /\ i <= Len(lines)))

\* The loop is back at a line it had already read: the line before it began
\* a match that went past this line, failed, and was passed through.
C10Witness ==
    /\ pc = "loop"
    /\ match.start = -1
    /\ 0 < i /\ i < Len(lines)
    /\ out # <<>>
    /\ out[Len(out)].role = "pass"
    /\ out[Len(out)].idx = i - 1
    /\ SlotMatches(hop_pattern[1], LineRecord(i - 1))
    /\ SlotMatches(hop_pattern[2], LineRecord(i))

----------------------------------------------------------------------------
(* C11 *)

\* The context make_hop collected after the window of block b.
ContextAfter(b) == extract_context(SliceFrom(lines, blocks[b].end), ContextCount).moves

HasLanding(b) == WithRole(BlockEntries(b), "landing") # <<>>

\* The Records of the landing wipe of block b before it reverses.
LandingLeg(b) ==
    SubSeq(Records(WithRole(BlockEntries(b), "landing")), 1,
           Len(WithRole(BlockEntries(b), "landing")) \div 2)

\* One turn of back_and_forth over moves, forth and back, adds twice
\* TotalDist(moves) to the distance of track_dist, so the loop breaks within
\* wipe_dist / (4 * TotalDist(moves)) + 1 turns of 2 * Len(moves) steps.
StepBound(moves, wipe_dist) ==
    2 * Len(moves) * (wipe_dist \div (4 * TotalDist(moves)) + 1)

\* The wipe loop over moves ran under its guard and stopped: the context has
\* positive length, the wipe distance is positive, and the leg ends, within
\* StepBound steps, at a step that reaches half the wipe distance.
StoppedUnderGuard(moves, wipe_dist, leg) ==
    /\ wipe_dist > 0
    /\ PathLength(moves) > 0
    /\ Len(leg) <= StepBound(moves, wipe_dist)
    /\ 2 * LegDists(leg)[Len(leg)] >= wipe_dist

----------------------------------------------------------------------------
(* C12 *)

\* The line of the window of block b that filled the slot called name, as
\* make_hop emitted it.
Emitted(b, name) == Records(WithRole(BlockEntries(b), name))

\* C12: fields holds an entry for exactly the slots removed from remaining,
\* in slot order; start is -1 exactly when no slot has committed; otherwise
\* the committed slots hold the Records of the lines start..end, one line a
\* slot.  A complete match reaches make_hop with the lines start..start+5.
C12Theorem ==
    /\ Len(match.fields) + Len(match.remaining) = Len(hop_pattern)
    /\ match.remaining =
          SubSeq(hop_pattern, Len(match.fields) + 1, Len(hop_pattern))
    /\ \A j \in 1..Len(match.fields) :
          match.fields[j][1] = hop_pattern[j].name
    /\ (match.start = -1) <=> (match.fields = <<>>)
    /\ match.start # -1 =>
          /\ match.end = match.start + Len(match.fields) - 1
          /\ \A j \in 1..Len(match.fields) :
                match.fields[j][2] = <<LineRecord(match.start + j - 1)>>
    /\ \A b \in 1..Len(blocks) :
          /\ blocks[b].start # -1
          /\ blocks[b].end = blocks[b].start + Len(hop_pattern) - 1
          /\ b \in Whole =>
                /\ Emitted(b, "retract") = <<LineRecord(blocks[b].start)>>
                /\ Emitted(b, "section") = <<LineRecord(blocks[b].start + 3)>>
                /\ Emitted(b, "down") = <<LineRecord(blocks[b].start + 4)>>
                /\ Emitted(b, "extrude") = <<LineRecord(blocks[b].end)>>

\* Five slots have committed and the loop goes on.
C12Witness ==
    /\ pc = "loop"
    /\ match.start # -1
    /\ Len(match.fields) = Len(hop_pattern) - 1
    /\ i < Len(lines)

----------------------------------------------------------------------------
(* C13 *)

\* The Record carries a Z argument or, when same_type is set, its comment
\* holds a feature-type marker.
StopsAt(gcode) ==
    \/ Has(gcode.args, "Z")
    \/ same_type /\ Contains(gcode.comment, TypeMarker)

Stops(k) == IF ParseRaises(lines[k]) THEN FALSE ELSE StopsAt(parse_line(lines[k]))

\* The index of the first line from k on that stops collection or does not
\* parse; Len(lines) + 1 when there is none.
RECURSIVE FirstStop(_)
FirstStop(k) ==
    IF k > Len(lines) THEN k
    ELSE IF ParseRaises(lines[k]) \/ Stops(k) THEN k
    ELSE FirstStop(k + 1)

HasXY(gcode) == Has(gcode.args, "X") /\ Has(gcode.args, "Y")

\* The lines before index stop that carry X and Y.
EligibleBefore(stop) ==
    SelectSeq([k \in 1..(stop - 1) |-> k], LAMBDA k : HasXY(parse_line(lines[k])))

FirstOf(seq, n) == SubSeq(seq, 1, IF Len(seq) < n THEN Len(seq) ELSE n)

LastTaken == IF scan.taken = <<>> THEN 0 ELSE scan.taken[Len(scan.taken)]

\* At every point of the loop: at most count moves, each with X and Y, taken
\* from lines already read, in scan order.
Collected ==
    /\ Len(scan.moves) <= ContextCount
    /\ Len(scan.taken) = Len(scan.moves)
    /\ \A j \in 1..Len(scan.taken) :
          /\ scan.taken[j] < scan.k
          /\ j > 1 => scan.taken[j - 1] < scan.taken[j]
          /\ HasXY(scan.moves[j])

\* The moves are the Records of the lines taken, and no line up to the last
\* one taken stops collection.
TakenBeforeStop ==
    /\ \A j \in 1..Len(scan.taken) :
          scan.moves[j] = parse_line(lines[scan.taken[j]])
    /\ \A z \in 1..LastTaken : ~Stops(z)

\* What the call returns: the first count eligible lines, as extract_context
\* computes them for make_hop.
ReturnedContext ==
    /\ pc = "returned" =>
          /\ TakenBeforeStop
          /\ scan.taken = FirstOf(EligibleBefore(FirstStop(1)), ContextCount)
          /\ extract_context(lines, ContextCount)
                = Context(scan.moves, scan.z_pos, FALSE)
    /\ pc = "error" => extract_context(lines, ContextCount).err

\* Once collect is cleared it stays cleared and moves does not change.
StaysStopped ==
    (pc = "scan" /\ ~scan.collect) => (~scan'.collect /\ scan'.moves = scan.moves)

\* C13: extract_context returns at most count moves, each with X and Y, none
\* at or beyond the first Record with a Z argument nor, when same_type is
\* set, at or beyond the first Record whose comment holds a feature-type
\* marker; once collection has stopped no later Record is added.
C13Theorem ==
    /\ [](Collected /\ ReturnedContext)
    /\ [][StaysStopped]_vars

\* The call returned count moves, having read a further move it did not add
\* and then a line with Z.
C13Witness ==
    /\ pc = "returned"
    /\ Len(scan.moves) = ContextCount
    /\ scan.z_pos # <<>>
    /\ \E k \in (scan.taken[ContextCount] + 1)..(scan.k - 1) :
          HasXY(parse_line(lines[k])) /\ ~Stops(k)

----------------------------------------------------------------------------
(* C14 *)

\* The indices below start of the lines that carry a Z argument.
ZBefore(start) == {k \in 0..(start - 1) : Has(LineRecord(k).args, "Z")}

NearestZ(start) == CHOOSE k \in ZBefore(start) : \A z \in ZBefore(start) : z <= k

\* C14 as stated: a block holds a raise Record exactly when some line below
\* the start of the match carries Z, and the raise then targets the Z of the
\* nearest such line plus z_relief; a match that starts at the first line
\* gets no raise Record.
C14Claim ==
    Terminal =>
        \A b \in Whole :
            Emitted(b, "raise") =
                IF ZBefore(blocks[b].start) = {} THEN <<>>
                ELSE <<RaiseRecord(
                        Float(Get(LineRecord(NearestZ(blocks[b].start)).args, "Z")))>>

----------------------------------------------------------------------------
(* C15 *)

\* The Records of block b whose comment is "hop".
HopRecords(b) ==
    SelectSeq(Records(BlockEntries(b)), LAMBDA g : g.comment = <<"h", "o", "p">>)

\* The Record of the window of block b at offset k from the end of the match:
\* the extrude slot at 0, the down slot at 1; the section slot, when filled,
\* lies between the move and the down slot.
FromEnd(b, k) == LineRecord(blocks[b].end - k)

UpSlot(b) == LineRecord(blocks[b].start + 1)

MoveSlot(b) == LineRecord(blocks[b].start + 2)

DownSlot(b) == FromEnd(b, 1)

ExtrudeSlot(b) == FromEnd(b, 0)

\* The hop height of block b for the moves `before` the retract.
HopHeight(b, before) ==
    HopZ(Float(Get(DownSlot(b).args, "Z")), HopDist(before, MoveSlot(b)), UpSlot(b))

\* C15 as stated: every block holds exactly one hop Record; it targets the X
\* and Y of the move slot at Z = max(down.Z + z_hop_per_mm * hop_dist, up.Z),
\* where hop_dist is the distance from the nearest move before the retract
\* and 0 when there is none; the Z is below neither up.Z nor down.Z.
C15Claim ==
    Terminal =>
        \A b \in Whole :
            /\ Len(HopRecords(b)) = 1
            /\ LET hop == HopRecords(b)[1]
               IN  /\ Get(hop.args, "X") = Get(MoveSlot(b).args, "X")
                   /\ Get(hop.args, "Y") = Get(MoveSlot(b).args, "Y")
                   /\ Float(Get(hop.args, "Z"))
                        = HopHeight(b, MovesBefore(blocks[b].start))
                   /\ Float(Get(hop.args, "Z")) >= Float(Get(UpSlot(b).args, "Z"))
                   /\ Float(Get(hop.args, "Z")) >= Float(Get(DownSlot(b).args, "Z"))

----------------------------------------------------------------------------
(* C16 *)

XY(gcode) == <<Get(gcode.args, "X"), Get(gcode.args, "Y")>>

\* The X/Y targets of the takeoff wipe of block b, in order.
TakeoffTargets(b) ==
    [k \in 1..Len(WithRole(BlockEntries(b), "takeoff")) |->
        XY(WithRole(BlockEntries(b), "takeoff")[k].gcode)]

\* The indices below start of the lines that carry X and Y.
XYBefore(start) == {k \in 0..(start - 1) : HasXY(LineRecord(k))}

NearestXY(start) == CHOOSE k \in XYBefore(start) : \A m \in XYBefore(start) : m <= k

\* The targets are some steps followed by the same steps in reverse.
Palindrome(targets) ==
    /\ Len(targets) % 2 = 0
    /\ targets = Retrace(SubSeq(targets, 1, Len(targets) \div 2))

\* C16 as stated: the X/Y targets of an emitted takeoff wipe are some steps
\* followed by the same steps in reverse; the first and the last target are
\* the X/Y of the nearest move before the retract; and the last Record
\* before the hop is the last Record of the wipe.
C16Claim ==
    Terminal =>
        \A b \in Whole :
            HasTakeoff(b) =>
                /\ Palindrome(TakeoffTargets(b))
                /\ XYBefore(blocks[b].start) # {}
                /\ TakeoffTargets(b)[1] = XY(LineRecord(NearestXY(blocks[b].start)))
                /\ TakeoffTargets(b)[Len(TakeoffTargets(b))]
                      = XY(LineRecord(NearestXY(blocks[b].start)))
                /\ BlockEntries(b)[PositionOf(BlockEntries(b), "hop") - 1].role = "takeoff"

----------------------------------------------------------------------------
(* C17 *)

\* The value of the argument key most recently commanded by entries: <<>>
\* when none carries it.
RECURSIVE LastCommanded(_, _)
LastCommanded(entries, key) ==
    IF entries = <<>> THEN <<>>
    ELSE IF Has(entries[Len(entries)].gcode.args, key)
    THEN <<Get(entries[Len(entries)].gcode.args, key)>>
    ELSE LastCommanded(SubSeq(entries, 1, Len(entries) - 1), key)

\* C17 as stated: after the last Record of a block the most recently
\* commanded X and Y are those of the move slot, Z that of the down slot and
\* E that of the extrude slot, with or without a landing wipe.
C17Claim ==
    Terminal =>
        \A b \in Whole :
            /\ LastCommanded(BlockEntries(b), "X") = <<Get(MoveSlot(b).args, "X")>>
            /\ LastCommanded(BlockEntries(b), "Y") = <<Get(MoveSlot(b).args, "Y")>>
            /\ LastCommanded(BlockEntries(b), "Z") = <<Get(DownSlot(b).args, "Z")>>
            /\ LastCommanded(BlockEntries(b), "E") = <<Get(ExtrudeSlot(b).args, "E")>>

----------------------------------------------------------------------------
(* C18 *)

BlockRecords(b) == Records(BlockEntries(b))

\* The positions in the block of the Records equal to gcode.
Positions(b, gcode) == {k \in 1..Len(BlockRecords(b)) : BlockRecords(b)[k] = gcode}

\* The positions in the block of the Records the statement called role
\* yielded.
Yielded(b, role) == {k \in 1..Len(BlockEntries(b)) : BlockEntries(b)[k].role = role}

\* The statements of make_hop that yield a Record.
Yields ==
    {"marker", "raise", "retract", "takeoff", "hop", "lower", "landing",
     "extrude", "section", "down"}

\* The Record that filled the section slot of block b, if one did: the
\* window is then six lines long.
SectionSlot(b) ==
    IF blocks[b].end - blocks[b].start = 5
    THEN <<LineRecord(blocks[b].start + 3)>> ELSE <<>>

\* C18: in every block the marker is the first Record; the retract Record
\* is emitted once, before the hop; the lower Record comes right after the
\* hop; the extrude Record is emitted once, after the lower Record and every
\* landing wipe Record; the section Record, if the slot was filled, and then
\* the down Record are the last Records; no Record is the up or the move
\* Record.
C18Theorem ==
    Terminal =>
        \A b \in Whole :
            LET recs == BlockRecords(b)
                n == Len(recs)
            IN  /\ Yielded(b, "marker") = {1} /\ recs[1] = MarkerRecord
                /\ Cardinality(Yielded(b, "hop")) = 1
                /\ Cardinality(Yielded(b, "retract")) = 1
                /\ Cardinality(Yielded(b, "extrude")) = 1
                /\ \A h \in Yielded(b, "hop") :
                      /\ \A r \in Yielded(b, "retract") :
                            r < h /\ recs[r] = LineRecord(blocks[b].start)
                      /\ Yielded(b, "lower") = {h + 1}
                      /\ recs[h + 1] = LowerRecord(DownSlot(b))
                      /\ \A e \in Yielded(b, "extrude") :
                            /\ recs[e] = ExtrudeSlot(b)
                            /\ e > h + 1
                            /\ \A w \in Yielded(b, "landing") : h + 1 < w /\ w < e
                            /\ e < n - Len(SectionSlot(b))
                /\ Yielded(b, "down") = {n} /\ recs[n] = DownSlot(b)
                /\ IF SectionSlot(b) = <<>> THEN Yielded(b, "section") = {}
                   ELSE /\ Yielded(b, "section") = {n - 1}
                        /\ recs[n - 1] = SectionSlot(b)[1]
                /\ \A k \in 1..n : BlockEntries(b)[k].role \in Yields
                /\ Positions(b, UpSlot(b)) = {}
                /\ Positions(b, MoveSlot(b)) = {}

\* A block with a raise, a takeoff wipe, a landing wipe and a section.
C18Witness ==
    /\ Terminal
    /\ \E b \in Whole :
          /\ Emitted(b, "raise") # <<>>
          /\ HasTakeoff(b)
          /\ HasLanding(b)
          /\ SectionSlot(b) # <<>>

====
